---------------------------- MODULE Spec2Model ----------------------------
(***************************************************************************)
(* The RSS generation function of Reaperrhs/RSS-Feed-Generator.            *)
(*                                                                         *)
(* One request to the generation entry point is followed from the moment   *)
(* the handler is invoked to the moment it has answered, through the page  *)
(* fetch (primary method and fallback), the LLM call, and the enrichment   *)
(* of the decoded items.  The repository keeps several revisions of the    *)
(* function; three of them are modelled and selected by `variant`:         *)
(*                                                                         *)
(*   "main"      src/functions/rss-generator/src/main.js  (batched)        *)
(*   "hardened"  src/unnamed/part_005   (timeouts, always-200 XML errors)  *)
(*   "legacy"    src/unnamed/part_004   (Promise.all over every item)      *)
(*                                                                         *)
(* Every `await` of the code is a point where the model waits for the      *)
(* network; the code that runs after the await (up to the next await) is   *)
(* part of the action that delivers the network's answer.                  *)
(*                                                                         *)
(* The parts of the function that are pure (image filter, text tidying,    *)
(* JSON decoding, item template, error document) and the services of the   *)
(* browser application (parseXMLToFeed, the saved feeds, the Appwrite      *)
(* client, the CreateFeed flow) are followed each under a specification    *)
(* of its own, with a variable of its own; the others stay idle.           *)
(***************************************************************************)
EXTENDS Integers, Sequences, FiniteSets, TLC

\* ------------------------------------------------------------------ bounds

\* The longest items array the model lets the LLM answer with.
MaxItems == 4

\* The longest image URL, in distinguishing parts.
MaxUrlLen == 2

\* The longest text the model answers with, in distinguishing pieces.
MaxTextLen == 3

\* The most items a complete answer of the model holds, for the decoder.
MaxDocItems == 3

\* The longest channel title, in characters, and the most items of a feed
\* that is serialised and parsed back.
MaxFieldLen == 2
MaxFeedItems == 2

\* The most generations one visit of the feed-creation form starts.
MaxGenerations == 3

\* Calls of the Appwrite service followed.
MaxCalls == 3

\* The longest error message, in characters kept.
MaxMessageLen == 3

\* ------------------------------------------------------- program constants

BATCH_SIZE == 3
HardenedItemLimit == 3
DefaultCacheTime == 3600
MinCacheTime == 60
MaxCacheTime == 604800
LegacyCacheTime == 3600

\* ------------------------------------------------------------------- state

VARIABLES
    variant,        \* which revision of the function serves the request
    req,            \* the request: url, cache parameter, configured credential
    pc,             \* where the handler is: idle, page, llm, enrich, done
    page,           \* the fetchWebPage call for the target URL
    llm,            \* the LLM completion call
    items,          \* the decoded items array (parsedData.items)
    tasks,          \* one enrichment task per processed item
    enrichedItems,  \* the item elements produced so far, in output order
    sent,           \* the responses the handler has returned
    enr,            \* the enrichment of one item, followed on its own
    post,           \* the post-processing of XML text written by the model
    dec,            \* the decoding of the model's JSON text
    ser,            \* a feed serialised and parsed back by parseXMLToFeed
    ui,             \* the feed-creation flow of the browser application
    tpl,            \* one item written by the item template
    aw,             \* the Appwrite client of services/appwriteService.ts
    store,          \* the saved feeds in localStorage
    errdoc          \* the error document of the hardened entry point

\* The state outside the request handler.
aux == <<enr, post, dec, ser, ui, tpl, aw, store, errdoc>>

vars == <<variant, req, pc, page, llm, items, tasks, enrichedItems, sent, aux>>

Variants == {"main", "hardened", "legacy"}

\* The url parameter: absent (or empty), or a URL.
UrlKinds == {"none", "plain"}

\* The cache parameter: absent, not a number, or an integer.
CacheParams ==
    {[kind |-> "absent", val |-> 0], [kind |-> "nan", val |-> 0]}
    \cup {[kind |-> "int", val |-> c] : c \in {-5, 0, 5000, 700000}}

\* What a fetched body amounts to once it has been read: the empty string, a
\* page without / with an image reference, or a JSON value that is not a
\* string (a response body of unexpected shape).
GoodContents == {"page", "pageImg"}
Contents == {""} \cup GoodContents \cup {"nonstring"}

\* A bot-interstitial page: a body that holds the challenge phrase
\* "Just a moment..." or is shorter than the short-body threshold.
Interstitial == "interstitial"

IsString(c) == c \in {"", Interstitial} \cup GoodContents

\* The elements of the decoded items array: null (not an object), an item
\* that carries an acceptable image, an item with a link and no image.
ItemKinds == {"bad", "img", "link"}

RECURSIVE SeqsUpTo(_, _)
SeqsUpTo(S, n) ==
    IF n = 0 THEN {<<>>}
    ELSE LET shorter == SeqsUpTo(S, n - 1)
         IN  shorter \cup {Append(s, x) : s \in {t \in shorter : Len(t) = n - 1}, x \in S}

ItemLists == SeqsUpTo(ItemKinds, MaxItems)

Min(a, b) == IF a < b THEN a ELSE b
Max(a, b) == IF a > b THEN a ELSE b

\* --------------------------------------------------------------- responses

\* A response sent without a Cache-Control header.
NoHeader == 0 - 1

Response(status, ctype, title, cause, its, maxAge) ==
    [status |-> status, ctype |-> ctype, title |-> title, cause |-> cause,
     items |-> its, maxAge |-> maxAge]

\* res.json({ error: "Missing 'url' parameter" }, 400)
MissingUrlResponse == Response(400, "json", "", "Missing", <<>>, NoHeader)

\* Mutant: the catch block answers without the error message.
ErrorResponse_NoMessage(v, cause) ==
    IF v = "hardened"
    THEN Response(200, "xml", "Error", "", <<>>, NoHeader)
    ELSE Response(500, "json", "", "", <<>>, NoHeader)

\* The catch block of the handler: 500 JSON carrying e.message, or, in the
\* hardened revision, a 200 XML document whose channel title is the error.
ErrorResponse(v, cause) ==
    IF v = "hardened"
    THEN Response(200, "xml", "Error", cause, <<>>, NoHeader)
    ELSE Response(500, "json", "", cause, <<>>, NoHeader)

\* parseInt(cache) || 3600, then Math.max(60, Math.min(604800, cacheTime)).
\* The legacy revision does not read the parameter.
FinalCacheTime(v, c) ==
    IF v = "legacy" THEN LegacyCacheTime
    ELSE LET cacheTime == IF c.kind = "int" /\ c.val # 0 THEN c.val ELSE DefaultCacheTime
         IN  Max(MinCacheTime, Min(MaxCacheTime, cacheTime))

\* res.send(rssXml, 200, {Content-Type: application/xml, Cache-Control: ...})
FeedResponse(v, c, title, its) ==
    Response(200, "xml", title, "", its, FinalCacheTime(v, c))

\* ------------------------------------------------------------ fetchWebPage

\* A call of fetchWebPage: which await it is suspended at (pHead: the primary
\* fetch, pBody: reading the primary body, fHead / fBody: the same for the
\* AllOrigins fallback), whether an abort timer is armed, and, once it has
\* returned ("ret"), the value returned.
IdleFetch == [stage |-> "none", timer |-> FALSE, val |-> ""]
Returned(c) == [stage |-> "ret", timer |-> FALSE, val |-> c]
Suspended(f) == f.stage \in {"pHead", "pBody", "fHead", "fBody"}

HeadEvents == {"ok", "notok", "neterr"}

\* The hardened revision arms an AbortController timer before each fetch and
\* clears it as soon as the fetch has resolved; the others arm none.
ArmsTimer(v) == v = "hardened"

\* The primary request: Crawl4AI (main, legacy) or the Jina reader (hardened).
FwStart(v, u) == [stage |-> "pHead", timer |-> ArmsTimer(v), val |-> ""]

\* fetchViaAllOrigins up to its fetch.
FallbackStart(v, u) == [stage |-> "fHead", timer |-> ArmsTimer(v), val |-> ""]

\* The fetch of the suspended request settles: with a response (ok or not),
\* with a network error, or aborted by the timer.
FwHead(v, u, f, ev) ==
    IF f.stage = "pHead"
    THEN IF ev = "ok" THEN [stage |-> "pBody", timer |-> FALSE, val |-> ""]
         ELSE FallbackStart(v, u)
    ELSE IF ev = "ok" THEN [stage |-> "fBody", timer |-> FALSE, val |-> ""]
         ELSE Returned("")

\* What reading a body can give.  readerr: the read fails or the text is not
\* JSON; malformed: JSON of a shape the code dereferences into a TypeError
\* (null, a null result); noresults: no results array or an empty one;
\* blocked: a non-200 status_code, a short body or the challenge phrase;
\* otherwise the content the code picks out of the body.  The primary method
\* tests the body for the signs of an interstitial (blocked); the AllOrigins
\* fallback returns data.contents untested, interstitial or not.
PrimaryBodyEvents(v) ==
    IF v = "hardened" THEN {"readerr", "blocked", ""} \cup GoodContents
    ELSE {"readerr", "malformed", "noresults", "blocked"} \cup Contents

FallbackBodyEvents == {"readerr", "malformed", Interstitial} \cup Contents

BodyEvents(v, f) ==
    IF f.stage = "pBody" THEN PrimaryBodyEvents(v) ELSE FallbackBodyEvents

\* The code after `await response.json()` / `await response.text()`.
FwBody(v, u, f, ev) ==
    IF f.stage = "pBody"
    THEN IF v = "hardened"
         THEN IF ev \in GoodContents THEN Returned(ev) ELSE FallbackStart(v, u)
         ELSE IF ev \in {"readerr", "malformed", "blocked"} THEN FallbackStart(v, u)
              ELSE IF ev = "noresults" THEN Returned("")
              ELSE Returned(ev)
    ELSE IF ev \in {"readerr", "malformed"} THEN Returned("")
         ELSE Returned(ev)

\* -------------------------------------------------------------- enrichment

\* const itemsToProcess = items.slice(0, 3) in the hardened revision; the
\* others enrich every decoded item.
ItemsToProcess(v, its) ==
    IF v = "hardened" THEN SubSeq(its, 1, Min(HardenedItemLimit, Len(its))) ELSE its

\* How many items one Promise.all covers: BATCH_SIZE in main.js, all of them
\* in the revisions that map over the whole array.
BatchWidth(v, n) == IF v = "main" THEN BATCH_SIZE ELSE Max(n, 1)

IdleTask == [st |-> "idle", fw |-> IdleFetch, img |-> FALSE]
DoneTask(img) == [st |-> "done", fw |-> IdleFetch, img |-> img]

\* The callback of batch.map up to its first await.  A null element makes
\* `item.link` throw, so its promise is rejected; an item with an image
\* resolves at once; an item with a link and no image starts its fetch.
StartTask(v, kind) ==
    IF kind = "bad" THEN [st |-> "rejected", fw |-> IdleFetch, img |-> FALSE]
    ELSE IF kind = "img" THEN DoneTask(TRUE)
    ELSE [st |-> "pending", fw |-> FwStart(v, "plain"), img |-> FALSE]

\* The rest of the callback once fetchWebPage has returned.  The code is
\* inside try/catch: content that is not a string (on which .match throws)
\* leaves the item without an image.
AfterFetch(t, f) ==
    IF f.stage = "ret" THEN DoneTask(f.val = "pageImg")
    ELSE [t EXCEPT !.fw = f]

\* The enrichment fetch settles.  main.js and part_004 call fetchWebPage; the
\* hardened revision fetches the Jina reader directly, without fallback.
TaskHead(v, t, ev) ==
    IF v = "hardened"
    THEN IF ev = "ok" THEN [t EXCEPT !.fw = [stage |-> "pBody", timer |-> FALSE, val |-> ""]]
         ELSE DoneTask(FALSE)
    ELSE AfterFetch(t, FwHead(v, "plain", t.fw, ev))

TaskBody(v, t, ev) ==
    IF v = "hardened"
    THEN DoneTask(ev = "pageImg")
    ELSE AfterFetch(t, FwBody(v, "plain", t.fw, ev))

TaskBodyEvents(v, t) ==
    IF v = "hardened" THEN {"readerr", ""} \cup GoodContents ELSE BodyEvents(v, t.fw)

\* Mutant: the results of a batch are pushed last-to-first.
BatchResults_Reversed(ts, lo, hi) ==
    [k \in 1..(hi - lo + 1) |-> [src |-> hi - k + 1, img |-> ts[hi - k + 1].img]]

\* The item elements of a settled batch, in the order of the batch:
\* Promise.all keeps the order of its input, and the results are pushed as
\* one block.
BatchResults(ts, lo, hi) ==
    [k \in 1..(hi - lo + 1) |-> [src |-> lo + k - 1, img |-> ts[lo + k - 1].img]]

\* The batch loop from the batch that follows the elements already pushed:
\* start the batch's callbacks if they have not run, fail when one of its
\* promises is rejected, push its results and go on when all have resolved,
\* wait otherwise.
RECURSIVE EnrichLoop(_, _, _, _)
EnrichLoop(v, kinds, ts, out) ==
    LET n  == Len(kinds)
        lo == Len(out) + 1
        hi == Min(Len(out) + BatchWidth(v, n), n)
        ts2 == [i \in 1..n |->
                  IF i \in lo..hi /\ ts[i].st = "idle" THEN StartTask(v, kinds[i]) ELSE ts[i]]
    IN  IF lo > n THEN [tasks |-> ts, out |-> out, status |-> "finish"]
        ELSE IF \E i \in lo..hi : ts2[i].st = "rejected"
             THEN [tasks |-> ts2, out |-> out, status |-> "fail"]
        ELSE IF \A i \in lo..hi : ts2[i].st = "done"
             THEN EnrichLoop(v, kinds, ts2, out \o BatchResults(ts2, lo, hi))
        ELSE [tasks |-> ts2, out |-> out, status |-> "wait"]

\* ----------------------------------------------------------------- handler

\* Mutant: the credential is looked at before the url.
UrlMissing_AfterKey(r) == r.url = "none" /\ r.apiKey

\* if (!url)
UrlMissing(r) == r.url = "none"

\* Mutant: the credential check is left out.
MissingApiKey_Unchecked(r) == FALSE

\* if (!apiKey): in the handler of main.js and part_005, and at the head of
\* generateRSSFromURL in every revision.
MissingApiKey(r) == ~r.apiKey

\* The item of the document the hardened revision returns when the page
\* could not be fetched: it is written by the code, not by the model.
FetchFailedItems == <<[src |-> 0, img |-> FALSE]>>

\* part_004 never reads req.query.cache: its requests are drawn without the
\* parameter, since no value of it can change what that revision does.
RequestCacheParams(v) ==
    IF v = "legacy" THEN {[kind |-> "absent", val |-> 0]} ELSE CacheParams

\* A component that is not running.
NotRunning == [st |-> "none"]

\* Nothing outside the request handler is running.
AuxIdle ==
    /\ enr = NotRunning /\ post = NotRunning /\ dec = NotRunning
    /\ ser = NotRunning /\ ui = NotRunning
    /\ tpl = NotRunning /\ aw = NotRunning /\ store = NotRunning /\ errdoc = NotRunning

Init ==
    /\ AuxIdle
    /\ variant \in Variants
    /\ req \in [url : UrlKinds, cache : RequestCacheParams(variant), apiKey : BOOLEAN]
    /\ pc = "idle"
    /\ page = IdleFetch
    /\ llm = [stage |-> "none", ok |-> FALSE, timer |-> FALSE]
    /\ items = <<>>
    /\ tasks = <<>>
    /\ enrichedItems = <<>>
    /\ sent = <<>>

Respond(r) ==
    /\ sent' = Append(sent, r)
    /\ pc' = "done"

\* The exception reaches the catch block of the handler.
Fail(cause) == Respond(ErrorResponse(variant, cause))

\* The handler up to its first await.
Receive ==
    /\ pc = "idle"
    /\ IF UrlMissing(req)
       THEN /\ Respond(MissingUrlResponse)
            /\ UNCHANGED page
       ELSE IF MissingApiKey(req)
       THEN /\ Fail("config")
            /\ UNCHANGED page
       ELSE /\ page' = FwStart(variant, req.url)
            /\ pc' = "page"
            /\ UNCHANGED sent
    /\ UNCHANGED <<aux, variant, req, llm, items, tasks, enrichedItems>>

\* generateRSSFromURL once fetchWebPage has settled with f.
AfterPage(f) ==
    /\ page' = f
    /\ IF Suspended(f)
       THEN UNCHANGED <<pc, llm, sent>>
       ELSE IF ~IsString(f.val)
       THEN \* htmlContent.replace is not a function
            /\ Fail("fetch")
            /\ UNCHANGED llm
       ELSE IF f.val = "" /\ variant = "hardened"
       THEN \* "Fetch failed - preventing hallucination."
            /\ Respond(FeedResponse(variant, req.cache, "FetchFailed", FetchFailedItems))
            /\ UNCHANGED llm
       ELSE \* the prompt is built (around a fixed sentence when the content
            \* is empty) and the completion endpoint is called
            /\ llm' = [stage |-> "headers", ok |-> FALSE, timer |-> ArmsTimer(variant)]
            /\ pc' = "llm"
            /\ UNCHANGED sent
    /\ UNCHANGED <<aux, variant, req, items, tasks, enrichedItems>>

PageHead(ev) ==
    /\ pc = "page"
    /\ page.stage \in {"pHead", "fHead"}
    /\ AfterPage(FwHead(variant, req.url, page, ev))

PageBody(ev) ==
    /\ pc = "page"
    /\ page.stage \in {"pBody", "fBody"}
    /\ ev \in BodyEvents(variant, page) \ {"pageImg"}
    /\ AfterPage(FwBody(variant, req.url, page, ev))

\* setTimeout(() => controller.abort(), ...) fires while the fetch is pending.
PageTimer ==
    /\ pc = "page"
    /\ page.timer
    /\ AfterPage(FwHead(variant, req.url, page, "abort"))

\* ---------------------------------------------------------------- LLM call

\* What reading the completion response can give: the read fails or the body
\* is not JSON (readerr), the body has no choices array (nochoices), the
\* model's text cannot be parsed by any of the decoder's attempts
\* (undecodable), or the text decodes to an object whose items are its.
LlmBodyEvents == {"readerr", "nochoices", "undecodable"}

\* generateRSSFromURL once the model's text has been decoded to its.
AfterDecode(its) ==
    LET kinds == ItemsToProcess(variant, its)
        r == EnrichLoop(variant, kinds, [i \in 1..Len(kinds) |-> IdleTask], <<>>)
    IN  /\ items' = its
        /\ tasks' = r.tasks
        /\ enrichedItems' = r.out
        /\ IF r.status = "fail" THEN Fail("enrichment")
           ELSE IF r.status = "finish"
           THEN Respond(FeedResponse(variant, req.cache, "Feed", r.out))
           ELSE pc' = "enrich" /\ UNCHANGED sent

LlmHead(ev) ==
    /\ pc = "llm"
    /\ llm.stage = "headers"
    /\ IF ev = "neterr"
       THEN /\ llm' = [llm EXCEPT !.stage = "over", !.timer = FALSE]
            /\ Fail("extraction")
       ELSE /\ llm' = [stage |-> "body", ok |-> (ev = "ok"), timer |-> FALSE]
            /\ UNCHANGED <<pc, sent>>
    /\ UNCHANGED <<aux, variant, req, page, items, tasks, enrichedItems>>

\* aiController.abort() after 12 s, while the fetch is pending.
LlmTimer ==
    /\ pc = "llm"
    /\ llm.timer
    /\ llm' = [llm EXCEPT !.stage = "over", !.timer = FALSE]
    /\ Fail("extraction")
    /\ UNCHANGED <<aux, variant, req, page, items, tasks, enrichedItems>>

\* The body of a non-ok response only feeds the message of the error thrown.
LlmErrorBody ==
    /\ pc = "llm"
    /\ llm.stage = "body"
    /\ ~llm.ok
    /\ llm' = [llm EXCEPT !.stage = "over"]
    /\ Fail("extraction")
    /\ UNCHANGED <<aux, variant, req, page, items, tasks, enrichedItems>>

LlmBodyFails(ev) ==
    /\ pc = "llm"
    /\ llm.stage = "body"
    /\ llm.ok
    /\ llm' = [llm EXCEPT !.stage = "over"]
    /\ Fail(IF ev = "undecodable" THEN "decode" ELSE "extraction")
    /\ UNCHANGED <<aux, variant, req, page, items, tasks, enrichedItems>>

LlmBodyDecoded(its) ==
    /\ pc = "llm"
    /\ llm.stage = "body"
    /\ llm.ok
    /\ llm' = [llm EXCEPT !.stage = "over"]
    /\ AfterDecode(its)
    /\ UNCHANGED <<aux, variant, req, page>>

\* ------------------------------------------------------- enrichment steps

\* Task i has become t: the callbacks of Promise.all run only while
\* generateRSSFromURL is still waiting for the batch.
AfterTask(i, t) ==
    LET ts == [tasks EXCEPT ![i] = t]
        kinds == ItemsToProcess(variant, items)
    IN  IF pc # "enrich"
        THEN /\ tasks' = ts
             /\ UNCHANGED <<pc, sent, enrichedItems>>
        ELSE LET r == EnrichLoop(variant, kinds, ts, enrichedItems)
             IN  /\ tasks' = r.tasks
                 /\ enrichedItems' = r.out
                 /\ IF r.status = "fail" THEN Fail("enrichment")
                    ELSE IF r.status = "finish"
                    THEN Respond(FeedResponse(variant, req.cache, "Feed", r.out))
                    ELSE UNCHANGED <<pc, sent>>

EnrichHead(i, ev) ==
    /\ i \in DOMAIN tasks
    /\ tasks[i].st = "pending"
    /\ tasks[i].fw.stage \in {"pHead", "fHead"}
    /\ AfterTask(i, TaskHead(variant, tasks[i], ev))
    /\ UNCHANGED <<aux, variant, req, page, llm, items>>

EnrichBody(i, ev) ==
    /\ i \in DOMAIN tasks
    /\ tasks[i].st = "pending"
    /\ tasks[i].fw.stage \in {"pBody", "fBody"}
    /\ ev \in TaskBodyEvents(variant, tasks[i])
    /\ AfterTask(i, TaskBody(variant, tasks[i], ev))
    /\ UNCHANGED <<aux, variant, req, page, llm, items>>

\* controller.abort() after 4 s, while the enrichment fetch is pending.
EnrichTimer(i) ==
    /\ i \in DOMAIN tasks
    /\ tasks[i].st = "pending"
    /\ tasks[i].fw.timer
    /\ AfterTask(i, TaskHead(variant, tasks[i], "abort"))
    /\ UNCHANGED <<aux, variant, req, page, llm, items>>

\* ------------------------------------------------------------ specification

AllBodyEvents == {"readerr", "malformed", "noresults", "blocked", Interstitial} \cup Contents

NetworkAnswers ==
    \/ \E ev \in HeadEvents : PageHead(ev)
    \/ \E ev \in AllBodyEvents : PageBody(ev)
    \/ \E ev \in HeadEvents : LlmHead(ev)
    \/ LlmErrorBody
    \/ \E ev \in LlmBodyEvents : LlmBodyFails(ev)
    \/ \E its \in ItemLists : LlmBodyDecoded(its)
    \/ \E i \in 1..(MaxItems + 1), ev \in HeadEvents : EnrichHead(i, ev)
    \/ \E i \in 1..(MaxItems + 1), ev \in AllBodyEvents : EnrichBody(i, ev)

Timers ==
    \/ PageTimer
    \/ LlmTimer
    \/ \E i \in 1..(MaxItems + 1) : EnrichTimer(i)

Next == Receive \/ NetworkAnswers \/ Timers

Spec == Init /\ [][Next]_vars

\* The handler's own steps run as soon as they can, and an armed timer
\* fires; nothing obliges the network to answer.
FairSpec == Spec /\ WF_vars(Receive) /\ WF_vars(Timers)

\* ------------------------------------------- image filter and discovery

\* The enrichment of one item is followed on its own, from the item the
\* model extracted to the image its <enclosure> carries, in the two
\* revisions whose filters differ: "main" (main.js; part_005 has the same
\* filter) and "deep" (part_007, the deep extraction).
ImageRevisions == {"main", "deep"}

\* A URL is the sequence of its distinguishing parts; the empty sequence is
\* no URL at all (null, undefined or "").
UrlParts == {"wp-content", "uploads", "logo", "Icon", "avatar", "placeholder", "tr?id=", "photo"}

NoUrl == <<>>

ImageUrls == SeqsUpTo(UrlParts, MaxUrlLen)

\* String.prototype.toLowerCase, on a part.
toLowerCase(part) == IF part = "Icon" THEN "icon" ELSE part

\* String.prototype.includes, on the parts of a URL.
includes(url, part) == \E i \in DOMAIN url : url[i] = part

\* src.toLowerCase().includes(part)
lowerIncludes(url, part) == \E i \in DOMAIN url : toLowerCase(url[i]) = part

\* finalImage.match(/(?<!wp-content.*)logo|(?<!wp-content.*)icon|avatar/i):
\* "logo" or "icon" with no "wp-content" anywhere before it, or "avatar".
MatchesLogoPattern(url) ==
    \E i \in DOMAIN url :
        \/ /\ toLowerCase(url[i]) \in {"logo", "icon"}
           /\ \A j \in 1..(i - 1) : toLowerCase(url[j]) # "wp-content"
        \/ toLowerCase(url[i]) = "avatar"

\* const isLogo = (src) => ...  (part_007)
isLogo(url) ==
    \/ lowerIncludes(url, "logo") \/ lowerIncludes(url, "icon")
    \/ lowerIncludes(url, "avatar")
    \/ lowerIncludes(url, "placeholder") \/ lowerIncludes(url, "tr?id=")

\* Whether the extracted image is cleared before discovery.
ClearsImage(rev, url) ==
    IF rev = "deep" THEN isLogo(url)
    ELSE MatchesLogoPattern(url) /\ ~includes(url, "uploads")

\* The article page as the patterns of the code see it: the image of each
\* kind of tag (NoUrl when the page has no such tag) and the src of the
\* inline <img> tags in document order.  NoArticle is a fetch that returned
\* the empty string.
CandidateUrls(kind) == {NoUrl, <<kind>>, <<"logo", kind>>, <<"placeholder", kind>>}

InlineLists == {<<>>, <<<<"photo">>>>, <<<<"logo">>, <<"photo">>>>, <<<<"placeholder">>, <<"photo">>>>}

Articles ==
    [featured : CandidateUrls("featured"), twitter : CandidateUrls("twitter"),
     og : CandidateUrls("og"), itemprop : CandidateUrls("itemprop"),
     inline : InlineLists]

NoArticle == [featured |-> NoUrl, twitter |-> NoUrl, og |-> NoUrl, itemprop |-> NoUrl,
              inline |-> <<>>]

\* The filter of the candidates array of part_007.
KeepsCandidate(url) ==
    /\ url # NoUrl
    /\ ~lowerIncludes(url, "logo") /\ ~lowerIncludes(url, "icon")
    /\ ~lowerIncludes(url, "avatar") /\ ~lowerIncludes(url, "tr?id=")

\* The condition of the <img> loop of part_007.
KeepsInline(url) ==
    /\ ~includes(url, "logo") /\ ~includes(url, "icon")
    /\ ~includes(url, "avatar") /\ ~includes(url, "/ad/")

\* The first of the URLs at the positions kept, NoUrl when none is kept.
FirstKept(urls, kept) ==
    IF kept = {} THEN NoUrl
    ELSE urls[CHOOSE i \in kept : \A j \in kept : i <= j]

\* The image found on the article page.  main.js: og:image, else
\* twitter:image.  part_007: the first kept candidate of featured, twitter,
\* og, itemprop; else the first kept inline image.
DiscoverImage(rev, a) ==
    IF rev = "main"
    THEN IF a.og # NoUrl THEN a.og ELSE a.twitter
    ELSE LET candidates == <<a.featured, a.twitter, a.og, a.itemprop>>
             found == FirstKept(candidates, {i \in 1..4 : KeepsCandidate(candidates[i])})
         IN  IF found # NoUrl THEN found
             ELSE FirstKept(a.inline, {i \in DOMAIN a.inline : KeepsInline(a.inline[i])})

EnrichmentInputs ==
    [rev : ImageRevisions, image : ImageUrls, link : BOOLEAN]

\* The callback up to its await: the extracted image is cleared or kept, and
\* the article page is fetched when the item has a link and no image.
EnrichItemStart ==
    /\ enr.st = "start"
    /\ LET finalImage == IF enr.image # NoUrl /\ ClearsImage(enr.rev, enr.image)
                         THEN NoUrl ELSE enr.image
           fetches == enr.link /\ finalImage = NoUrl
       IN  enr' = [enr EXCEPT !.st = IF fetches THEN "fetching" ELSE "done",
                              !.fetched = fetches,
                              !.finalImage = finalImage]
    /\ UNCHANGED <<variant, req, pc, page, llm, items, tasks, enrichedItems, sent>>
    /\ UNCHANGED <<post, dec, ser, ui, tpl, aw, store, errdoc>>

\* fetchWebPage(finalLink, false) has returned the article page a.
ArticleReturns(a) ==
    /\ enr.st = "fetching"
    /\ enr' = [enr EXCEPT !.st = "done", !.article = a,
                          !.finalImage = DiscoverImage(enr.rev, a)]
    /\ UNCHANGED <<variant, req, pc, page, llm, items, tasks, enrichedItems, sent>>
    /\ UNCHANGED <<post, dec, ser, ui, tpl, aw, store, errdoc>>

\* No request is being handled.
NoRequest ==
    /\ variant = "main"
    /\ req = [url |-> "none", cache |-> [kind |-> "absent", val |-> 0], apiKey |-> FALSE]
    /\ pc = "idle"
    /\ page = IdleFetch
    /\ llm = [stage |-> "none", ok |-> FALSE, timer |-> FALSE]
    /\ items = <<>>
    /\ tasks = <<>>
    /\ enrichedItems = <<>>
    /\ sent = <<>>

ImageInit ==
    /\ NoRequest
    /\ post = NotRunning /\ dec = NotRunning /\ ser = NotRunning /\ ui = NotRunning
    /\ tpl = NotRunning /\ aw = NotRunning /\ store = NotRunning /\ errdoc = NotRunning
    /\ \E in \in EnrichmentInputs :
          enr = [st |-> "start", rev |-> in.rev, image |-> in.image, link |-> in.link,
                 fetched |-> FALSE, article |-> NoArticle, finalImage |-> NoUrl]

ImageNext ==
    \/ EnrichItemStart
    \/ \E a \in Articles : ArticleReturns(a)

ImageSpec == ImageInit /\ [][ImageNext]_vars

\* --------------------------------------- post-processing of model XML text

\* In part_008 (and part_006) the model writes the XML itself and
\* generateRSSFromURL only tidies the text.  The text is the sequence of its
\* distinguishing pieces: a markdown fence, prose, a short apology, the
\* declaration with version 1.0 or 2.0, the <rss ...> opening with what
\* follows it, the closing </rss>, a bare ampersand.
TextPieces == {"fence", "prose", "sorry", "decl10", "decl20", "rss", "endrss", "&"}

ModelTexts == SeqsUpTo(TextPieces, MaxTextLen)

\* The length of a piece in characters, as far as `text.length < 50` goes.
PieceLength(piece) ==
    CASE piece = "fence" -> 3
      [] piece = "prose" -> 60
      [] piece = "sorry" -> 20
      [] piece \in {"decl10", "decl20"} -> 38
      [] piece = "rss" -> 19
      [] piece = "endrss" -> 6
      [] OTHER -> 1

RECURSIVE TextLength(_)
TextLength(text) ==
    IF text = <<>> THEN 0 ELSE PieceLength(Head(text)) + TextLength(Tail(text))

\* indexOf / lastIndexOf over the pieces of a set: 0 stands for -1.
IndexOf(text, pieces) ==
    LET at == {i \in DOMAIN text : text[i] \in pieces}
    IN  IF at = {} THEN 0 ELSE CHOOSE i \in at : \A j \in at : i <= j

LastIndexOf(text, pieces) ==
    LET at == {i \in DOMAIN text : text[i] \in pieces}
    IN  IF at = {} THEN 0 ELSE CHOOSE i \in at : \A j \in at : i >= j

\* text.match(/```(?:xml)?\s*([\s\S]*?)\s*```/): what stands between the
\* first fence and the next one, when there are two.
ExtractMarkdown(text) ==
    LET open == IndexOf(text, {"fence"})
        rest == IF open = 0 THEN <<>> ELSE SubSeq(text, open + 1, Len(text))
        close == IndexOf(rest, {"fence"})
    IN  IF open # 0 /\ close # 0 THEN SubSeq(rest, 1, close - 1) ELSE text

\* text.substring(startIndex): from the declaration if there is one, else
\* from the <rss tag if there is one, else the whole text.
FromStartIndex(text) ==
    LET xmlDeclIndex == IndexOf(text, {"decl10", "decl20"})
        rssTagIndex == IndexOf(text, {"rss"})
        startIndex == IF xmlDeclIndex # 0 THEN xmlDeclIndex ELSE rssTagIndex
    IN  IF startIndex # 0 THEN SubSeq(text, startIndex, Len(text)) ELSE text

\* The apology test, made when neither '<?xml' nor '<rss' is in the text.
IsApology(text) ==
    /\ IndexOf(text, {"decl10", "decl20", "rss"}) = 0
    /\ TextLength(text) < 50
    /\ IndexOf(text, {"sorry"}) # 0

\* text.substring(0, closingTagIndex + 6)
TrimAfterClosingTag(text) ==
    LET closingTagIndex == LastIndexOf(text, {"endrss"})
    IN  IF closingTagIndex # 0 THEN SubSeq(text, 1, closingTagIndex) ELSE text

\* text.replace(/&(?!(?:amp|lt|gt|quot|apos);)/g, '&amp;')
SanitizeAmpersands(text) ==
    [i \in DOMAIN text |-> IF text[i] = "&" THEN "&amp;" ELSE text[i]]

\* text.replace(/<\?xml\s+version=["']2\.0["']/, '<?xml version="1.0"'):
\* without the g flag, the first occurrence only.
ForceXmlVersion(text) ==
    LET first == IndexOf(text, {"decl20"})
    IN  [i \in DOMAIN text |-> IF i = first THEN "decl10" ELSE text[i]]

\* Steps 1 to 5 of generateRSSFromURL on the model's text.
PostProcess(text) ==
    LET extracted == ExtractMarkdown(text)
    IN  IF IsApology(extracted)
        THEN [st |-> "thrown", out |-> <<>>]
        ELSE [st |-> "done",
              out |-> ForceXmlVersion(SanitizeAmpersands(
                          TrimAfterClosingTag(FromStartIndex(extracted))))]

\* The completion has been read; the text is tidied and returned.
PostProcessText ==
    /\ post.st = "start"
    /\ LET r == PostProcess(post.text)
       IN  post' = [post EXCEPT !.st = r.st, !.out = r.out]
    /\ UNCHANGED <<variant, req, pc, page, llm, items, tasks, enrichedItems, sent>>
    /\ UNCHANGED <<enr, dec, ser, ui, tpl, aw, store, errdoc>>

PostInit ==
    /\ NoRequest
    /\ enr = NotRunning /\ dec = NotRunning /\ ser = NotRunning /\ ui = NotRunning
    /\ tpl = NotRunning /\ aw = NotRunning /\ store = NotRunning /\ errdoc = NotRunning
    /\ \E text \in ModelTexts : post = [st |-> "start", text |-> text, out |-> <<>>]

PostSpec == PostInit /\ [][PostProcessText]_vars

\* ------------------------------------------------ decoding the model's JSON

\* The text of the completion is the sequence of its JSON tokens: braces,
\* brackets and commas, whole members ("T" the channel title, "t1", "l1", ...
\* the title and the link of item 1, ...), the items key with its opening
\* bracket, with or without the space the repair of part_005 looks for, and,
\* at the end of a truncated text, an unterminated string, the last
\* character of which may happen to be '}'.
ItemTitles == <<"t1", "t2", "t3", "t4">>
ItemLinks == <<"l1", "l2", "l3", "l4">>
MemberTokens ==
    {"T", "t1+u", "items:5"} \cup {ItemTitles[k] : k \in 1..4} \cup {ItemLinks[k] : k \in 1..4}
ItemsKeys == {"items: [", "items:["}
PartialStrings == {"half", "half}"}

\* main.js, part_005, part_007 and services/geminiService.ts
DecoderRevisions == {"main", "hardened", "deep", "service"}

\* {"title": ..., "link": ...} of item k
ItemText(k) == <<"{", ItemTitles[k], ",", ItemLinks[k], "}">>

RECURSIVE ItemsText(_)
ItemsText(n) ==
    IF n = 0 THEN <<>>
    ELSE IF n = 1 THEN ItemText(1)
    ELSE ItemsText(n - 1) \o <<",">> \o ItemText(n)

\* A complete answer with n items.
Document(n, key, withTitle) ==
    <<"{">> \o (IF withTitle THEN <<"T", ",">> ELSE <<>>) \o <<key>>
        \o ItemsText(n) \o <<"]", "}">>

Documents ==
    {Document(n, key, withTitle) : n \in 0..MaxDocItems, key \in ItemsKeys, withTitle \in BOOLEAN}

\* Whether a text ends inside an item object.
EndsInsideItem(text) == LastIndexOf(text, {"{"}) > LastIndexOf(text, {"}"})

\* The answers cut short before the closing of a populated items array: a
\* prefix that reaches into the array, after which the string being written
\* may have been cut as well.
Truncations(doc) ==
    LET key == IndexOf(doc, ItemsKeys)
        close == IndexOf(doc, {"]"})
        prefixes == {SubSeq(doc, 1, n) : n \in (key + 1)..(close - 1)}
    IN  prefixes \cup
        {Append(t, half) : t \in {u \in prefixes : EndsInsideItem(u) /\ u[Len(u)] \in {"{", ","}},
                           half \in PartialStrings}

\* The token at a position, "eof" past the end.
TokenAt(text, pos) == IF pos \in DOMAIN text THEN text[pos] ELSE "eof"

ParseFails == [ok |-> FALSE, pos |-> 0, val |-> <<>>]

\* JSON.parse, from a member of an item object on.
RECURSIVE ParseItemMembers(_, _, _)
ParseItemMembers(text, pos, acc) ==
    IF TokenAt(text, pos) \notin MemberTokens THEN ParseFails
    ELSE LET acc2 == Append(acc, text[pos])
         IN  IF TokenAt(text, pos + 1) = "," THEN ParseItemMembers(text, pos + 2, acc2)
             ELSE IF TokenAt(text, pos + 1) = "}"
                  THEN [ok |-> TRUE, pos |-> pos + 2, val |-> acc2]
             ELSE ParseFails

\* JSON.parse, an object that is an element of the items array.
ParseItem(text, pos) ==
    IF TokenAt(text, pos) # "{" THEN ParseFails
    ELSE IF TokenAt(text, pos + 1) = "}" THEN [ok |-> TRUE, pos |-> pos + 2, val |-> <<>>]
    ELSE ParseItemMembers(text, pos + 1, <<>>)

\* JSON.parse, from an element of the items array on.
RECURSIVE ParseElements(_, _, _)
ParseElements(text, pos, acc) ==
    LET r == ParseItem(text, pos)
    IN  IF ~r.ok THEN ParseFails
        ELSE LET acc2 == Append(acc, r.val)
             IN  IF TokenAt(text, r.pos) = "," THEN ParseElements(text, r.pos + 1, acc2)
                 ELSE IF TokenAt(text, r.pos) = "]"
                      THEN [ok |-> TRUE, pos |-> r.pos + 1, val |-> acc2]
                 ELSE ParseFails

\* JSON.parse, from a member of the outer object on; the value is the items
\* array met so far.
RECURSIVE ParseMembers(_, _, _)
ParseMembers(text, pos, its) ==
    LET member ==
            IF TokenAt(text, pos) \in MemberTokens
            THEN [ok |-> TRUE, pos |-> pos + 1, val |-> its]
            ELSE IF TokenAt(text, pos) \in ItemsKeys
            THEN IF TokenAt(text, pos + 1) = "]"
                 THEN [ok |-> TRUE, pos |-> pos + 2, val |-> <<>>]
                 ELSE ParseElements(text, pos + 1, <<>>)
            ELSE ParseFails
    IN  IF ~member.ok THEN ParseFails
        ELSE IF TokenAt(text, member.pos) = "," THEN ParseMembers(text, member.pos + 1, member.val)
        ELSE IF TokenAt(text, member.pos) = "}"
             THEN [ok |-> TRUE, pos |-> member.pos + 1, val |-> member.val]
        ELSE ParseFails

\* JSON.parse(text) followed by
\* Array.isArray(parsedData.items) ? parsedData.items : []
\* : whether the text is one JSON object, and the items it holds.
\* isNull tells the value null, of which no member can be read.
JSONparse(text) ==
    LET r == IF Len(text) = 1 /\ text[1] \in {"null", "5", "[]"}
             THEN [ok |-> TRUE, pos |-> 2, val |-> <<>>]
             ELSE IF TokenAt(text, 1) # "{" THEN ParseFails
             ELSE IF TokenAt(text, 2) = "}" THEN [ok |-> TRUE, pos |-> 3, val |-> <<>>]
             ELSE ParseMembers(text, 2, <<>>)
    IN  IF r.ok /\ r.pos = Len(text) + 1
        THEN [ok |-> TRUE, pos |-> r.pos, val |-> r.val, isNull |-> (text = <<"null">>)]
        ELSE [ok |-> FALSE, pos |-> 0, val |-> <<>>, isNull |-> FALSE]

\* The characters '}' of a text are its closing braces and the last
\* character of a cut string that ends with one.
ClosingBraces == {"}", "half}"}

endsWith(text, suffix) ==
    /\ Len(text) >= Len(suffix)
    /\ SubSeq(text, Len(text) - Len(suffix) + 1, Len(text)) = suffix

\* Mutant: the repair closes the object left open, too.
RepairTruncation_ClosesObject(text) ==
    IF text # <<>> /\ text[Len(text)] \in ClosingBraces THEN text
    ELSE IF IndexOf(text, {"items: ["}) = 0 THEN text
    ELSE text \o <<"}", "]", "}">>

\* "Basic JSON repair for truncation" of part_005.
RepairTruncation(text) ==
    IF text # <<>> /\ text[Len(text)] \in ClosingBraces THEN text
    ELSE IF IndexOf(text, {"items: ["}) = 0 THEN text
    ELSE LET cut == SubSeq(text, 1, LastIndexOf(text, ClosingBraces))
             closed == IF endsWith(cut, <<"]", "}">>) THEN cut ELSE cut \o <<"]", "}">>
         IN  IF closed[1] = "{" THEN closed ELSE <<"{">> \o closed

\* content.substring(firstOpen, lastClose + 1); substring swaps its
\* arguments when the first is the larger.
BraceSubstring(text) ==
    LET firstOpen == IndexOf(text, {"{"})
        lastClose == LastIndexOf(text, ClosingBraces)
    IN  IF firstOpen <= lastClose THEN SubSeq(text, firstOpen, lastClose)
        ELSE SubSeq(text, lastClose + 1, firstOpen - 1)

\* content.replace(/```(?:json)?\s*([\s\S]*?)\s*```/g, "$1"): every pair of
\* fences is taken away, from the left.
RECURSIVE StripFences(_)
StripFences(text) ==
    LET open == IndexOf(text, {"fence"})
        rest == IF open = 0 THEN <<>> ELSE SubSeq(text, open + 1, Len(text))
        close == IndexOf(rest, {"fence"})
    IN  IF open = 0 \/ close = 0 THEN text
        ELSE SubSeq(text, 1, open - 1) \o SubSeq(rest, 1, close - 1)
                 \o StripFences(SubSeq(rest, close + 1, Len(rest)))

\* .replace(/[\x00-\x1F\x7F]/g, ""): the control character written raw in
\* the title of item 1 goes, and the string is the title without it.
StripControl(text) ==
    [i \in DOMAIN text |-> IF text[i] = "t1+ctl" THEN "t1" ELSE text[i]]

\* .replace(/\\u(?![0-9a-fA-F]{4})/g, "\\\\u"): a \u that four hex digits do
\* not follow gets its backslash doubled, which makes the string a valid one.
RepairUnicode(text) ==
    [i \in DOMAIN text |-> IF text[i] = "t1+badu" THEN "t1+u" ELSE text[i]]

\* cleanContent, the text of the first JSON.parse.
CleanContent(rev, text) ==
    CASE rev \in {"main", "deep"} -> RepairUnicode(StripControl(ExtractMarkdown(text)))
      [] rev = "hardened" -> RepairTruncation(StripFences(text))
      [] OTHER -> text

\* The message of the error thrown when both parses have failed: "head"
\* carries content.substring(0, 100), "fixed" is a constant text, "syntax" is
\* the message of the SyntaxError of the second JSON.parse, left uncaught.
DecodeErrorMessage(rev, secondTried) ==
    CASE rev \in {"hardened", "deep"} -> "head"
      [] OTHER -> IF secondTried THEN "syntax" ELSE "fixed"

\* The decoder: parse the cleaned text; if that fails, parse what stands
\* between the first '{' and the last '}'; if there is no such pair or that
\* fails too, throw.  Then read the items member of the value, which throws
\* a TypeError ("type") when the value is null.
Decode(rev, text) ==
    LET first == JSONparse(CleanContent(rev, text))
        secondTried ==
            /\ IndexOf(text, {"{"}) # 0
            /\ LastIndexOf(text, ClosingBraces) # 0
            /\ rev = "service" => IndexOf(text, {"{"}) < LastIndexOf(text, ClosingBraces)
        second == IF secondTried THEN JSONparse(BraceSubstring(text))
                  ELSE JSONparse(<<>>)
        parsed == IF first.ok THEN first ELSE second
    IN  IF ~parsed.ok
        THEN [st |-> "thrown", items |-> <<>>, msg |-> DecodeErrorMessage(rev, secondTried)]
        ELSE IF parsed.isNull THEN [st |-> "thrown", items |-> <<>>, msg |-> "type"]
        ELSE [st |-> "done", items |-> parsed.val, msg |-> ""]

\* The completion has been read; its text is decoded.
DecodeText ==
    /\ dec.st = "start"
    /\ LET r == Decode(dec.rev, dec.text)
       IN  dec' = [dec EXCEPT !.st = r.st, !.items = r.items, !.msg = r.msg]
    /\ UNCHANGED <<variant, req, pc, page, llm, items, tasks, enrichedItems, sent>>
    /\ UNCHANGED <<enr, post, ser, ui, tpl, aw, store, errdoc>>

\* Answers that are JSON but hold no items array: null, a number, an array,
\* an object without items, an object whose items member is a number.
ItemlessDocuments ==
    {<<"null">>, <<"5">>, <<"[]">>, <<"{", "}">>, <<"{", "T", "}">>, <<"{", "items:5", "}">>,
     <<"{", "T", ",", "items:5", "}">>}

\* A complete answer in which the title of item 1 holds a raw control
\* character ("t1+ctl") or a \u without its four hex digits ("t1+badu").
Damaged(doc, how) == [i \in DOMAIN doc |-> IF doc[i] = "t1" THEN how ELSE doc[i]]

\* A complete answer as the model wraps it: in a pair of fences, with or
\* without a sentence before them.
Wrapped(doc) == {<<"fence">> \o doc \o <<"fence">>, <<"prose", "fence">> \o doc \o <<"fence">>}

\* What the model may answer around a document: the document, its
\* truncations, its damaged and wrapped forms.
AnswersOf(doc) ==
    {doc} \cup Truncations(doc) \cup Wrapped(doc)
        \cup {Damaged(doc, how) : how \in {"t1+ctl", "t1+badu"}}

DecodeInit ==
    /\ NoRequest
    /\ enr = NotRunning /\ post = NotRunning /\ ser = NotRunning /\ ui = NotRunning
    /\ tpl = NotRunning /\ aw = NotRunning /\ store = NotRunning /\ errdoc = NotRunning
    /\ \E rev \in DecoderRevisions :
          \/ \E doc \in Documents :
                \E text \in AnswersOf(doc) :
                    dec = [st |-> "start", rev |-> rev, text |-> text,
                           truncated |-> (text \in Truncations(doc)),
                           items |-> <<>>, msg |-> ""]
          \/ \E text \in ItemlessDocuments \cup {<<"prose">>} :
                dec = [st |-> "start", rev |-> rev, text |-> text,
                       truncated |-> FALSE, items |-> <<>>, msg |-> ""]

DecodeSpec == DecodeInit /\ [][DecodeText]_vars

\* --------------------------------------- serialising and parsing a feed

\* Text is a sequence of characters, of which the model keeps an ordinary
\* one, the XML metacharacters & and <, a blank, and, as single elements,
\* the character runs "amp;" and "lt;" that make entity-like text after &.
XmlChars == {"a", "&", "<", " ", "amp;", "lt;"}

FieldTexts == SeqsUpTo(XmlChars \ {" "}, MaxFieldLen) \ {<<>>}

\* escapeXml, on the characters kept.
RECURSIVE escapeXml(_)
escapeXml(unsafe) ==
    IF unsafe = <<>> THEN <<>>
    ELSE (CASE Head(unsafe) = "&" -> <<"&", "amp;">>
            [] Head(unsafe) = "<" -> <<"&", "lt;">>
            [] Head(unsafe) = "]]>" -> <<"]]", "&", "gt;">>
            [] OTHER -> <<Head(unsafe)>>) \o escapeXml(Tail(unsafe))

\* An element's content in the document: escaped text, or a CDATA section.
Escaped(text) == [cdata |-> FALSE, text |-> escapeXml(text)]
cdata(content) == [cdata |-> TRUE, text |-> content]

\* Replacing the character references of a text, as an XML parser does
\* (strict: a bare & or < is an error) and as assigning to innerHTML of a
\* <textarea> does (lenient: what is not a reference stays).
RECURSIVE Unescape(_, _)
Unescape(text, strict) ==
    IF text = <<>> THEN [ok |-> TRUE, val |-> <<>>]
    ELSE IF Head(text) = "&" /\ Len(text) >= 2 /\ text[2] \in {"amp;", "lt;"}
    THEN LET rest == Unescape(SubSeq(text, 3, Len(text)), strict)
         IN  [ok |-> rest.ok,
              val |-> <<IF text[2] = "amp;" THEN "&" ELSE "<">> \o rest.val]
    ELSE IF strict /\ Head(text) \in {"&", "<"} THEN [ok |-> FALSE, val |-> <<>>]
    ELSE LET rest == Unescape(Tail(text), strict)
         IN  [ok |-> rest.ok, val |-> <<Head(text)>> \o rest.val]

\* node.textContent after DOMParser has parsed the document.
textContent(node) ==
    IF node.cdata THEN [ok |-> TRUE, val |-> node.text] ELSE Unescape(node.text, TRUE)

\* const decodeEntities = (text) => ...
decodeEntities(text) == Unescape(text, FALSE).val

\* String.prototype.trim
RECURSIVE trim(_)
trim(text) ==
    IF text # <<>> /\ Head(text) = " " THEN trim(Tail(text))
    ELSE IF text # <<>> /\ text[Len(text)] = " " THEN trim(SubSeq(text, 1, Len(text) - 1))
    ELSE text

\* x || fallback, on strings.
OrElse(text, fallback) == IF text = <<>> THEN <<fallback>> ELSE text

\* The template of generateRSSFromURL: the service of the browser
\* application escapes every field; the function (main.js) puts the
\* descriptions in CDATA sections.
Serializers == {"service", "function"}

\* The elements a channel may have of its own, besides its items.
ChannelTags == {"title", "link", "description"}

Serialize(by, feed) ==
    LET desc(text) == IF by = "function" THEN cdata(text) ELSE Escaped(text)
    IN  [channel |-> TRUE,
         own |-> ChannelTags,
         title |-> Escaped(feed.title),
         link |-> Escaped(feed.link),
         description |-> desc(feed.description),
         items |-> [i \in DOMAIN feed.items |->
                      [title |-> Escaped(feed.items[i].title),
                       link |-> Escaped(feed.items[i].link),
                       description |-> desc(feed.items[i].description)]]]

NoFeed == [title |-> <<>>, link |-> <<>>, description |-> <<>>, items |-> <<>>]

\* channel.querySelector(tag)?.textContent || "": the text of the first
\* element of that name among the descendants of the channel, which is the
\* channel's own when it has one and else that of its first item.
querySelector(xml, tag) ==
    IF tag \in xml.own THEN textContent(xml[tag]).val
    ELSE IF xml.items # <<>> THEN textContent(xml.items[1][tag]).val
    ELSE <<>>

\* parseXMLToFeed: the error thrown ("xml": not valid XML, "channel": no
\* channel element), or the feed read from the document.
parseXMLToFeed(xml) ==
    LET nodes == {xml[tag] : tag \in xml.own}
                 \cup {xml.items[i][f] : i \in DOMAIN xml.items,
                                         f \in {"title", "link", "description"}}
        text(node) == textContent(node).val
    IN  IF \E node \in nodes : ~textContent(node).ok
        THEN [error |-> "xml", feed |-> NoFeed]
        ELSE IF ~xml.channel THEN [error |-> "channel", feed |-> NoFeed]
        ELSE [error |-> "",
              feed |->
                [title |-> OrElse(querySelector(xml, "title"), "Untitled Feed"),
                 link |-> querySelector(xml, "link"),
                 description |-> querySelector(xml, "description"),
                 items |-> [i \in DOMAIN xml.items |->
                    [title |-> decodeEntities(OrElse(text(xml.items[i].title), "No Title")),
                     link |-> trim(decodeEntities(OrElse(text(xml.items[i].link), "#"))),
                     description |-> decodeEntities(text(xml.items[i].description))]]]]

\* The feeds serialised: every field a non-empty text.
FeedItems ==
    [title : {<<"a">>, <<"&", "amp;">>, <<"<", "a">>},
     link : {<<"a">>},
     description : {<<"a">>, <<"&", "lt;">>}]

Feeds ==
    [title : FieldTexts,
     link : {<<"a">>, <<"a", "&", "a">>},
     description : {<<"a">>, <<"<">>, <<"&", "lt;">>},
     items : SeqsUpTo(FeedItems, MaxFeedItems)]

\* The document is handed to parseXMLToFeed.
ParseSerialized ==
    /\ ser.st = "start"
    /\ ser' = [ser EXCEPT !.st = "done", !.parsed = parseXMLToFeed(ser.xml)]
    /\ UNCHANGED <<variant, req, pc, page, llm, items, tasks, enrichedItems, sent>>
    /\ UNCHANGED <<enr, post, dec, ui, tpl, aw, store, errdoc>>

RoundTripInit ==
    /\ NoRequest
    /\ enr = NotRunning /\ post = NotRunning /\ dec = NotRunning /\ ui = NotRunning
    /\ tpl = NotRunning /\ aw = NotRunning /\ store = NotRunning /\ errdoc = NotRunning
    /\ \E by \in Serializers, feed \in Feeds, own \in SUBSET ChannelTags :
          ser = [st |-> "start", by |-> by, feed |-> feed,
                 xml |-> [Serialize(by, feed) EXCEPT !.own = own],
                 parsed |-> [error |-> "", feed |-> NoFeed]]

RoundTripSpec == RoundTripInit /\ [][ParseSerialized]_vars

\* ------------------------------------------------------ the item template

\* The template that writes one <item> element from a decoded item and the
\* image resolved for it, in main.js, part_005 ("hardened"), part_004
\* ("legacy"), part_007 ("deep") and services/geminiService.ts ("service").
TemplateRevisions == {"main", "hardened", "legacy", "deep", "service"}

\* A member of the decoded item: absent, the empty string, a blank string,
\* a text.
Undefined == "undefined"
MemberValues == {Undefined, "", " ", "a"}

\* x || y
Or(x, y) == IF x \in {Undefined, ""} THEN y ELSE x

\* An element that carries the image: its name, its url attribute, and the
\* type and length attributes of an enclosure.
MediaElement(name, url) ==
    [name |-> name, url |-> escapeXml(url),
     type |-> IF name = "enclosure" THEN "image/jpeg" ELSE "",
     length |-> IF name = "enclosure" THEN "0" ELSE ""]

\* imgTag; mediaTag, thumbnailTag and enclosureTag in part_005.
ImageElements(rev, finalImage) ==
    IF finalImage = NoUrl THEN <<>>
    ELSE CASE rev = "main" -> <<MediaElement("enclosure", finalImage)>>
           [] rev = "hardened" ->
                <<MediaElement("media:content", finalImage),
                  MediaElement("media:thumbnail", finalImage),
                  MediaElement("enclosure", finalImage)>>
           [] OTHER ->
                <<MediaElement("enclosure", finalImage),
                  MediaElement("media:content", finalImage)>>

\* The text of <description>, in pieces: the words, and in part_005 the
\* <img> that follows them when there is an image.
DescriptionText(rev, item, finalImage) ==
    LET words == Or(item.description,
                    Or(item.title,
                       IF rev \in {"deep", "service"} THEN "No description available" ELSE ""))
    IN  IF rev = "hardened" /\ finalImage # NoUrl THEN <<words, "<br/><img>">> ELSE <<words>>

\* The <item> element written for an item.
ItemElement(rev, item, finalImage) ==
    [title |-> Or(item.title, "No Title"),
     description |-> DescriptionText(rev, item, finalImage),
     media |-> ImageElements(rev, finalImage)]

NoElement == [title |-> "", description |-> <<>>, media |-> <<>>]

\* The template is applied to the item.
WriteItem ==
    /\ tpl.st = "start"
    /\ tpl' = [tpl EXCEPT !.st = "done",
                          !.element = ItemElement(tpl.rev, tpl.item, tpl.finalImage)]
    /\ UNCHANGED <<variant, req, pc, page, llm, items, tasks, enrichedItems, sent>>
    /\ UNCHANGED <<enr, post, dec, ser, ui, aw, store, errdoc>>

TemplateInit ==
    /\ NoRequest
    /\ enr = NotRunning /\ post = NotRunning /\ dec = NotRunning /\ ser = NotRunning
    /\ ui = NotRunning /\ aw = NotRunning /\ store = NotRunning /\ errdoc = NotRunning
    /\ \E rev \in TemplateRevisions, title \in MemberValues, description \in MemberValues,
          finalImage \in {NoUrl, <<"photo">>, <<"photo", "&">>} :
          tpl = [st |-> "start", rev |-> rev,
                 item |-> [title |-> title, description |-> description],
                 finalImage |-> finalImage, element |-> NoElement]

TemplateSpec == TemplateInit /\ [][WriteItem]_vars

\* ------------------------------------------------- the Appwrite service

\* services/appwriteService.ts keeps one client in the module; the
\* application calls uploadXMLToAppwrite and validateConnection with the
\* configuration it has read from storage or from the settings form.
AppwriteConfigs ==
    [endpoint : {<<"e1">>, <<"e2">>, <<"e1", " ">>}, projectId : {<<"p1">>, <<"p2">>}]

\* let client = null; let storage = null
NoClient == [endpoint |-> <<>>, project |-> <<>>]

\* initialize(config)
initialize(config) == [endpoint |-> trim(config.endpoint), project |-> trim(config.projectId)]

\* uploadXMLToAppwrite(xmlContent, fileName, config): the client is made
\* only when there is none; storage.createFile then succeeds or fails.
uploadXMLToAppwrite(config, outcome) ==
    /\ aw.st = "loaded"
    /\ Len(aw.calls) < MaxCalls
    /\ LET client == IF aw.client = NoClient THEN initialize(config) ELSE aw.client
       IN  aw' = [aw EXCEPT !.client = client,
                            !.calls = Append(@, [op |-> "upload", config |-> config,
                                                 used |-> client, outcome |-> outcome])]
    /\ UNCHANGED <<variant, req, pc, page, llm, items, tasks, enrichedItems, sent>>
    /\ UNCHANGED <<enr, post, dec, ser, ui, tpl, store, errdoc>>

\* validateConnection(config): the client is made anew; storage.listFiles
\* then succeeds or fails.
validateConnection(config, outcome) ==
    /\ aw.st = "loaded"
    /\ Len(aw.calls) < MaxCalls
    /\ LET client == initialize(config)
       IN  aw' = [aw EXCEPT !.client = client,
                            !.calls = Append(@, [op |-> "validate", config |-> config,
                                                 used |-> client, outcome |-> outcome])]
    /\ UNCHANGED <<variant, req, pc, page, llm, items, tasks, enrichedItems, sent>>
    /\ UNCHANGED <<enr, post, dec, ser, ui, tpl, store, errdoc>>

AppwriteInit ==
    /\ NoRequest
    /\ enr = NotRunning /\ post = NotRunning /\ dec = NotRunning /\ ser = NotRunning
    /\ ui = NotRunning /\ tpl = NotRunning /\ store = NotRunning /\ errdoc = NotRunning
    /\ aw = [st |-> "loaded", client |-> NoClient, calls |-> <<>>]

AppwriteNext ==
    \E config \in AppwriteConfigs, outcome \in {"returned", "thrown"} :
        \/ uploadXMLToAppwrite(config, outcome)
        \/ validateConnection(config, outcome)

AppwriteSpec == AppwriteInit /\ [][AppwriteNext]_vars

\* ------------------------------------------------------- the saved feeds

\* services/storageService.ts keeps the saved feeds as a JSON array under
\* one key of localStorage.  A feed here is its id, its url and the
\* generation its content comes from.
FeedIds == {"id1", "id2", "id3"}
FeedUrls == {"u1", "u2", "u3"}
SavedFeeds == [id : FeedIds, url : FeedUrls, content : {"first", "second"}]

\* The value under the key: none, or the array written last.
NoRaw == [present |-> FALSE, feeds |-> <<>>]

\* localStorage.setItem(STORAGE_KEY, JSON.stringify(feeds))
setItem(feeds) == [present |-> TRUE, feeds |-> feeds]

\* getSavedFeeds
getSavedFeeds(raw) == IF ~raw.present THEN <<>> ELSE raw.feeds

\* feeds.findIndex(f => f.url === feed.url): 0 stands for -1.
findIndex(feeds, url) ==
    LET at == {i \in DOMAIN feeds : feeds[i].url = url}
    IN  IF at = {} THEN 0 ELSE CHOOSE i \in at : \A j \in at : i <= j

\* Mutant: the feed is always added at the front.
saveFeed_AlwaysUnshifts(raw, feed) == setItem(<<feed>> \o getSavedFeeds(raw))

\* saveFeed: what is under the key afterwards.
saveFeed(raw, feed) ==
    LET feeds == getSavedFeeds(raw)
        existingIndex == findIndex(feeds, feed.url)
    IN  setItem(IF existingIndex # 0 THEN [feeds EXCEPT ![existingIndex] = feed]
                ELSE <<feed>> \o feeds)

\* deleteFeed: what is under the key afterwards.
deleteFeed(raw, id) ==
    LET feeds == getSavedFeeds(raw)
        Keep(f) == f.id # id
    IN  setItem(SelectSeq(feeds, Keep))

CallSaveFeed(feed) ==
    /\ store.st = "loaded"
    /\ store' = [store EXCEPT !.raw = saveFeed(store.raw, feed),
                              !.last = [op |-> "save", feed |-> feed]]
    /\ UNCHANGED <<variant, req, pc, page, llm, items, tasks, enrichedItems, sent>>
    /\ UNCHANGED <<enr, post, dec, ser, ui, tpl, aw, errdoc>>

CallDeleteFeed(id) ==
    /\ store.st = "loaded"
    /\ store' = [store EXCEPT !.raw = deleteFeed(store.raw, id),
                              !.last = [op |-> "delete", id |-> id]]
    /\ UNCHANGED <<variant, req, pc, page, llm, items, tasks, enrichedItems, sent>>
    /\ UNCHANGED <<enr, post, dec, ser, ui, tpl, aw, errdoc>>

StoreInit ==
    /\ NoRequest
    /\ enr = NotRunning /\ post = NotRunning /\ dec = NotRunning /\ ser = NotRunning
    /\ ui = NotRunning /\ tpl = NotRunning /\ aw = NotRunning /\ errdoc = NotRunning
    /\ store = [st |-> "loaded", raw |-> NoRaw, last |-> [op |-> "none"]]

StoreNext ==
    \/ \E feed \in SavedFeeds : CallSaveFeed(feed)
    \/ \E id \in FeedIds : CallDeleteFeed(id)

StoreSpec == StoreInit /\ [][StoreNext]_vars

\* ------------------------------------------------- the feed-creation flow

\* The CreateFeed component: the form of the input step, the generation it
\* awaits, the preview and the saving, with or without an Appwrite
\* configuration stored.

\* What the user has typed in the url field when submitting.
TypedUrls == {"", "not a url", "https://example.com"}

\* Three feeds the generation may return; a document in which a bare < stands
\* in the text of the title, so that it is not well-formed; a well-formed
\* document without a <channel> element.
FlowFeeds ==
    {[title |-> t, link |-> <<"a">>, description |-> <<"a">>, items |-> <<>>] :
        t \in {<<"a">>, <<"&">>, <<"<", "a">>}}

GoodDocuments == {Serialize("service", feed) : feed \in FlowFeeds}

MalformedDocuments == {[doc EXCEPT !.title.text = <<"<">>] : doc \in GoodDocuments}

NoChannelDocuments == {[doc EXCEPT !.channel = FALSE] : doc \in GoodDocuments}

GeneratedDocuments == GoodDocuments \cup MalformedDocuments \cup NoChannelDocuments

\* The component as mounted: useState initial values, nothing saved.
Mounted ==
    [st |-> "mounted", step |-> "input", url |-> "", loading |-> FALSE, error |-> "",
     generatedXML |-> NoFeed, previewData |-> NoFeed, generating |-> FALSE,
     generations |-> 0, received |-> NoFeed, saved |-> <<>>,
     saving |-> "", uploadFailed |-> FALSE, succeeded |-> <<>>]

\* Mutant: a failed generation is started again.
OnGenerateError_Retries(u, message) ==
    [u EXCEPT !.error = message, !.step = "processing", !.loading = TRUE,
              !.generating = TRUE, !.generations = u.generations + 1]

\* catch (err) { setError(err.message || ...); setStep('input') }
\* finally { setLoading(false) }
OnGenerateError(u, message) ==
    [u EXCEPT !.error = message, !.step = "input", !.loading = FALSE,
              !.generating = FALSE]

\* handleGenerate up to its await.
handleGenerate(typed) ==
    /\ ui.st = "mounted"
    /\ ui.step = "input"
    /\ ui.generations < MaxGenerations
    /\ typed # ""
    /\ ui' = IF typed = "not a url"
             THEN [ui EXCEPT !.url = typed, !.error = "invalid url"]
             ELSE [ui EXCEPT !.url = typed, !.loading = TRUE, !.error = "",
                             !.step = "processing", !.generating = TRUE,
                             !.generations = ui.generations + 1]
    /\ UNCHANGED <<variant, req, pc, page, llm, items, tasks, enrichedItems, sent>>
    /\ UNCHANGED <<enr, post, dec, ser, tpl, aw, store, errdoc>>

\* generateRSSFromURL has returned xml: the rest of handleGenerate.
GenerationReturns(xml) ==
    /\ ui.st = "mounted"
    /\ ui.generating
    /\ LET parsed == parseXMLToFeed(xml)
           got == [ui EXCEPT !.received = xml]
       IN  ui' = IF parsed.error # ""
                 THEN OnGenerateError(got, parsed.error)
                 ELSE [got EXCEPT !.generatedXML = xml, !.previewData = parsed.feed,
                                  !.step = "preview", !.loading = FALSE,
                                  !.generating = FALSE]
    /\ UNCHANGED <<variant, req, pc, page, llm, items, tasks, enrichedItems, sent>>
    /\ UNCHANGED <<enr, post, dec, ser, tpl, aw, store, errdoc>>

\* generateRSSFromURL has thrown.
GenerationThrows ==
    /\ ui.st = "mounted"
    /\ ui.generating
    /\ ui' = OnGenerateError([ui EXCEPT !.received = NoFeed], "generation")
    /\ UNCHANGED <<variant, req, pc, page, llm, items, tasks, enrichedItems, sent>>
    /\ UNCHANGED <<enr, post, dec, ser, tpl, aw, store, errdoc>>

\* The Back button of the preview.
Back ==
    /\ ui.st = "mounted"
    /\ ui.step = "preview"
    /\ ui' = [ui EXCEPT !.step = "input"]
    /\ UNCHANGED <<variant, req, pc, page, llm, items, tasks, enrichedItems, sent>>
    /\ UNCHANGED <<enr, post, dec, ser, tpl, aw, store, errdoc>>

\* What getAppwriteConfig() returns: null, a configuration without a
\* function domain, a configuration with one.
StoredConfigs == {"none", "static", "dynamic"}

\* The end of handleSave: newFeed is made, saved with saveFeed and handed to
\* onSuccess, which leaves the component.
FinishSave(u, publicUrl, fileId, type) ==
    LET newFeed == [id |-> "uuid", url |-> u.url, xmlContent |-> u.generatedXML,
                    parsedChannel |-> u.previewData, publicUrl |-> publicUrl,
                    fileId |-> fileId, type |-> type]
    IN  [u EXCEPT !.saved = getSavedFeeds(saveFeed(setItem(u.saved), newFeed)),
                  !.succeeded = Append(u.succeeded, newFeed),
                  !.saving = "", !.st = "closed"]

\* Mutant: after a failed upload the preview is shown again with the error.
OnUploadError_BackToPreview(u) ==
    [u EXCEPT !.error = "upload failed", !.uploadFailed = TRUE,
              !.saving = "", !.step = "preview"]

\* catch (e) { setError("Feed generated, but upload to Appwrite failed.
\* Saving locally only.") } and what follows it.
OnUploadError(u) ==
    FinishSave([u EXCEPT !.error = "upload failed", !.uploadFailed = TRUE],
               Undefined, Undefined, "static")

\* handleSave up to its await; without a configuration, all of it.
handleSave(config) ==
    /\ ui.st = "mounted"
    /\ ui.step = "preview"
    /\ ui.previewData # NoFeed /\ ui.generatedXML # NoFeed
    /\ ui' = CASE config = "none" -> FinishSave(ui, Undefined, Undefined, "static")
               [] config = "static" -> [ui EXCEPT !.step = "uploading", !.saving = "upload"]
               [] OTHER -> [ui EXCEPT !.step = "uploading", !.saving = "delay"]
    /\ UNCHANGED <<variant, req, pc, page, llm, items, tasks, enrichedItems, sent>>
    /\ UNCHANGED <<enr, post, dec, ser, tpl, aw, store, errdoc>>

\* uploadXMLToAppwrite has returned the file's id and view URL.
UploadReturns ==
    /\ ui.st = "mounted"
    /\ ui.saving = "upload"
    /\ ui' = FinishSave(ui, "viewUrl", "fileId", "static")
    /\ UNCHANGED <<variant, req, pc, page, llm, items, tasks, enrichedItems, sent>>
    /\ UNCHANGED <<enr, post, dec, ser, tpl, aw, store, errdoc>>

\* uploadXMLToAppwrite has thrown.
UploadThrows ==
    /\ ui.st = "mounted"
    /\ ui.saving = "upload"
    /\ ui' = OnUploadError(ui)
    /\ UNCHANGED <<variant, req, pc, page, llm, items, tasks, enrichedItems, sent>>
    /\ UNCHANGED <<enr, post, dec, ser, tpl, aw, store, errdoc>>

\* The second of delay of the dynamic feed has passed.
DelayElapses ==
    /\ ui.st = "mounted"
    /\ ui.saving = "delay"
    /\ ui' = FinishSave(ui, "functionUrl", Undefined, "dynamic")
    /\ UNCHANGED <<variant, req, pc, page, llm, items, tasks, enrichedItems, sent>>
    /\ UNCHANGED <<enr, post, dec, ser, tpl, aw, store, errdoc>>

FlowInit ==
    /\ NoRequest
    /\ enr = NotRunning /\ post = NotRunning /\ dec = NotRunning /\ ser = NotRunning
    /\ tpl = NotRunning /\ aw = NotRunning /\ store = NotRunning /\ errdoc = NotRunning
    /\ ui = Mounted

FlowNext ==
    \/ \E typed \in TypedUrls : handleGenerate(typed)
    \/ \E xml \in GeneratedDocuments : GenerationReturns(xml)
    \/ GenerationThrows
    \/ Back
    \/ \E config \in StoredConfigs : handleSave(config)
    \/ UploadReturns
    \/ UploadThrows
    \/ DelayElapses

FlowSpec == FlowInit /\ [][FlowNext]_vars

\* ----------------------------------- the error document of part_005

\* The catch block of the hardened entry point writes an RSS document from
\* the error: its message, which may carry up to 100 characters of upstream
\* or model text, its name and the head of its stack.  A text is the
\* sequence of its characters, of which the model keeps an ordinary one, <,
\* & and, as one element, the run "]]>".
ErrorMessages == SeqsUpTo({"a", "<", "&", "]]>"}, MaxMessageLen)

\* e.stack ? e.stack.substring(0, 500) : "no stack"; the stack begins with
\* the name and the message of the error.
StackHead(message, hasStack) ==
    IF hasStack THEN <<"a">> \o message \o <<"a">> ELSE <<"a">>

\* xmlError
ErrorDocument(message, hasStack) ==
    <<"<title>", "a">> \o escapeXml(message) \o <<"</title>", "<description>", "<![CDATA[">>
        \o <<"a">> \o message \o <<"a">> \o StackHead(message, hasStack)
        \o <<"]]>", "</description>">>

\* Whether a text is well-formed as the content of an element: outside a
\* CDATA section no bare <, no & that does not begin a reference, no "]]>";
\* a CDATA section ends at the first "]]>", and every section is ended.
RECURSIVE WellFormedContent(_, _)
WellFormedContent(text, inCdata) ==
    IF text = <<>> THEN ~inCdata
    ELSE IF inCdata THEN WellFormedContent(Tail(text), Head(text) # "]]>")
    ELSE CASE Head(text) = "<![CDATA[" -> WellFormedContent(Tail(text), TRUE)
           [] Head(text) \in {"<", "]]>"} -> FALSE
           [] Head(text) = "&" ->
                /\ Len(text) >= 2
                /\ text[2] \in {"amp;", "lt;", "gt;"}
                /\ WellFormedContent(SubSeq(text, 3, Len(text)), FALSE)
           [] OTHER -> WellFormedContent(Tail(text), FALSE)

\* The catch block runs.
WriteErrorDocument ==
    /\ errdoc.st = "caught"
    /\ errdoc' = [errdoc EXCEPT !.st = "sent",
                                !.xml = ErrorDocument(errdoc.message, errdoc.hasStack)]
    /\ UNCHANGED <<variant, req, pc, page, llm, items, tasks, enrichedItems, sent>>
    /\ UNCHANGED <<enr, post, dec, ser, ui, tpl, aw, store>>

ErrorDocumentInit ==
    /\ NoRequest
    /\ enr = NotRunning /\ post = NotRunning /\ dec = NotRunning /\ ser = NotRunning
    /\ ui = NotRunning /\ tpl = NotRunning /\ aw = NotRunning /\ store = NotRunning
    /\ \E message \in ErrorMessages, hasStack \in BOOLEAN :
          errdoc = [st |-> "caught", message |-> message, hasStack |-> hasStack, xml |-> <<>>]

ErrorDocumentSpec == ErrorDocumentInit /\ [][WriteErrorDocument]_vars

\* ------------------------------------------------------------------ claims

\* No network operation has been started for the request.
NoNetworkOp == page.stage = "none" /\ llm.stage = "none" /\ tasks = <<>>

Answered == Len(sent) = 1

\* A response that carries a feed document produced by generateRSSFromURL.
IsFeed(r) == r.status = 200 /\ r.ctype = "xml" /\ r.title \in {"Feed", "FetchFailed"}

ErrorCauses == {"config", "fetch", "extraction", "decode", "enrichment"}

\* C1: a request without a url is answered with status 400 and a JSON error
\* payload containing "Missing", whatever the credential and the cache
\* parameter are, and no network operation is ever started for it.
C1_MissingUrlIs400 ==
    req.url = "none" =>
        /\ NoNetworkOp
        /\ pc \in {"idle", "done"}
        /\ pc = "done" =>
              sent = <<[status |-> 400, ctype |-> "json", title |-> "", cause |-> "Missing",
                        items |-> <<>>, maxAge |-> NoHeader]>>

\* C1 witness: a request with neither url nor credential, and a cache
\* parameter, has been answered.
C1_Witness ==
    /\ req.url = "none" /\ ~req.apiKey /\ req.cache.kind = "int"
    /\ pc = "done" /\ Answered

\* C2: when the page fetch returns the empty string, no call to the LLM is
\* issued and the response is a feed document whose channel title carries the
\* fetch-failure indicator, with no model-produced items.
C2_EmptyPageNeverReachesLlm ==
    (page.stage = "ret" /\ page.val = "") =>
        /\ llm.stage = "none"
        /\ pc = "done"
        /\ Answered
        /\ sent[1].title = "FetchFailed"
        /\ \A k \in DOMAIN sent[1].items : sent[1].items[k].src = 0

\* C3: without a configured credential a generation request fails with a
\* configuration error and no network operation is started at any point.
C3_NoCredentialNoNetwork ==
    ~req.apiKey =>
        /\ NoNetworkOp
        /\ pc \in {"idle", "done"}
        /\ (pc = "done" /\ req.url # "none") =>
              /\ Answered
              /\ sent[1].cause = "config"
              /\ sent[1].status = (IF variant = "hardened" THEN 200 ELSE 500)

\* C3 witness: a request with a url and no credential has been answered.
C3_Witness == ~req.apiKey /\ req.url = "plain" /\ pc = "done" /\ Answered

C5_CacheControlIsClamped ==
    \A k \in DOMAIN sent :
        (sent[k].status = 200 /\ sent[k].title = "Feed") =>
            sent[k].maxAge = IF req.cache.kind = "int"
                             THEN Min(604800, Max(60, req.cache.val))
                             ELSE 3600

\* C6: whatever the network calls do, fetchWebPage returns a string.
C6_FetchReturnsString == page.stage = "ret" => IsString(page.val)

\* C7: every generation request eventually receives a response, even when a
\* network operation never answers.
C7_EveryRequestAnswered == <>Answered

\* C8: a failure while enriching one item, a malformed item included, never
\* makes the generation request fail: once the items are decoded the
\* response is the feed.
C8_EnrichmentNeverFailsRequest ==
    \A k \in DOMAIN sent : sent[k].cause # "enrichment"

\* The positions, in the decoded array, of the item elements of a document.
Srcs(its) == [k \in DOMAIN its |-> its[k].src]
FirstN(n) == [k \in 1..n |-> k]

\* C9 as stated: the feed holds exactly one item element for every element
\* of the decoded items array, in the array's order.
C9_EveryDecodedItemInOrder ==
    \A k \in DOMAIN sent :
        sent[k].title = "Feed" => Srcs(sent[k].items) = FirstN(Len(items))

\* C9 amended: the feed holds, in the array's order, exactly one item element
\* for every decoded element in main.js and part_004, and for each of the
\* first three decoded elements in part_005.
C9_ProcessedItemsInOrder ==
    \A k \in DOMAIN sent :
        sent[k].title = "Feed" =>
            Srcs(sent[k].items) =
                FirstN(IF variant = "hardened" THEN Min(3, Len(items)) ELSE Len(items))

\* C9 witness: main.js has answered with a feed of four enriched items, the
\* second of which got an image and the first and the fourth did not.
C9_Witness ==
    /\ variant = "main" /\ pc = "done" /\ Answered
    /\ items = <<"link", "link", "link", "link">>
    /\ Len(sent[1].items) = 4
    /\ ~sent[1].items[1].img /\ sent[1].items[2].img /\ ~sent[1].items[4].img

Batch(i) == (i - 1) \div 3

\* C10: at most 3 enrichment fetches are in flight at any moment, and no
\* enrichment fetch of an item of a later batch has started before every
\* item of the batches before it has finished.
C10_AtMostThreeInFlight ==
    /\ Cardinality({i \in DOMAIN tasks : tasks[i].st = "pending"}) <= 3
    /\ \A i, j \in DOMAIN tasks :
          (/\ Batch(i) < Batch(j)
           /\ ItemsToProcess(variant, items)[j] = "link"
           /\ tasks[j].st # "idle") =>
              tasks[i].st \in {"done", "rejected"}

\* The disallow list as the specification states it.
DisallowList == {"logo", "icon", "avatar", "placeholder", "tr?id="}
OnDisallowList(url) == \E part \in DisallowList : lowerIncludes(url, part)
Disallowed(url) == OnDisallowList(url) /\ ~includes(url, "uploads")

\* C11: no item of an emitted feed carries an image URL that matches the
\* disallow list, whether the image was extracted by the model or found on
\* the article page.
C11_NoDisallowedImageEmitted ==
    enr.st = "done" => ~Disallowed(enr.finalImage)

\* C17: an extracted image URL that contains a disallow-list substring
\* (case-insensitively) and not "uploads" is discarded, and when the item
\* has a link the article page is fetched to look for a replacement.
C17_DisallowedImageDiscarded ==
    (enr.st \in {"fetching", "done"} /\ Disallowed(enr.image)) =>
        /\ enr.link => enr.fetched
        /\ (enr.st = "done" /\ ~enr.fetched) => enr.finalImage = NoUrl

\* C18: an extracted image URL that contains "uploads" and a disallow-list
\* substring is kept as the item's image, and no secondary fetch is made.
C18_UploadsOverridesDisallowList ==
    (/\ enr.st \in {"fetching", "done"}
     /\ includes(enr.image, "uploads")
     /\ OnDisallowList(enr.image)) =>
        /\ ~enr.fetched
        /\ enr.st = "done"
        /\ enr.finalImage = enr.image

\* Whether a URL found on the article page can serve as the image.
Usable(url) == url # NoUrl /\ ~OnDisallowList(url)

\* C19: the image chosen on the article page is the first available in the
\* order featured-image marker, Twitter card, Open Graph, structured data;
\* an inline <img> is used only when none of the four yields an image.
C19_DiscoveryPriority ==
    (enr.st = "done" /\ enr.fetched) =>
        LET a == enr.article
            candidates == <<a.featured, a.twitter, a.og, a.itemprop>>
            found == FirstKept(candidates, {i \in 1..4 : Usable(candidates[i])})
            inline == FirstKept(a.inline, {i \in DOMAIN a.inline : Usable(a.inline[i])})
        IN  IF found # NoUrl THEN enr.finalImage = found
            ELSE enr.finalImage \in {NoUrl, inline}

\* C15: fetchWebPage returns the empty string only after the fallback has
\* been attempted: the call never goes from its primary method straight to
\* returning "".
C15_EmptyOnlyAfterFallback ==
    [][(page.stage \in {"pHead", "pBody"} /\ page'.stage = "ret") => page'.val # ""]_vars

\* C16: content that fetchWebPage returns is never a bot-interstitial page,
\* whichever method produced it.
C16_NeverReturnsInterstitial ==
    page.stage = "ret" => page.val # Interstitial

\* C14: the text returned by generation begins with the declaration
\* <?xml version="1.0" encoding="UTF-8"?>, for every output of the model; a
\* declaration with version 2.0 has been rewritten to 1.0.
C14_BeginsWithDeclaration ==
    post.st = "done" =>
        /\ post.out # <<>>
        /\ Head(post.out) = "decl10"

\* Whether item k stands complete in a text.
StandsComplete(text, k) ==
    \E i \in DOMAIN text : SubSeq(text, i, i + 4) = ItemText(k)

\* C20: for an answer cut short before the closing of a populated items
\* array, decoding either fails with an error or returns a non-empty list
\* made only of items that stand complete in the answer: never an item built
\* from a partly written object, never an empty list.
C20_TruncationNeverCorrupts ==
    (dec.st \in {"done", "thrown"} /\ dec.truncated) =>
        \/ dec.st = "thrown"
        \/ /\ dec.items # <<>>
           /\ \A i \in DOMAIN dec.items :
                 \E k \in 1..MaxDocItems :
                     /\ dec.items[i] = <<ItemTitles[k], ItemLinks[k]>>
                     /\ StandsComplete(dec.text, k)

\* C20 witness: part_005 has repaired an answer that was cut inside the
\* string of its third item, and returned the two items before it.
C20_Witness ==
    /\ dec.st = "done" /\ dec.truncated /\ dec.rev = "hardened"
    /\ dec.text[Len(dec.text)] = "half"
    /\ Len(dec.items) = 2

\* C12: parsing the serialised feed with parseXMLToFeed returns the channel
\* title, link and description of the feed and, for each item in order, its
\* title, link and description.
C12_RoundTrip ==
    (ser.st = "done" /\ ser.xml = Serialize(ser.by, ser.feed)) =>
        /\ ser.parsed.error = ""
        /\ ser.parsed.feed = ser.feed

\* C13: when the generated document is not well-formed XML or has no
\* <channel> element, parseXMLToFeed fails, and the flow is back at the
\* input step showing the error, with nothing saved and no generation
\* started again; a feed is only ever saved from the preview of a document
\* that was parsed.
C13_ParseErrorReturnsToInput ==
    [][/\ (/\ ui.generating
           /\ ui'.received \in MalformedDocuments \cup NoChannelDocuments) =>
              /\ ui'.step = "input"
              /\ ui'.error = (IF ui'.received \in MalformedDocuments THEN "xml" ELSE "channel")
              /\ ~ui'.generating /\ ~ui'.loading
              /\ ui'.generations = ui.generations
              /\ ui'.saved = ui.saved
              /\ ui'.generatedXML = ui.generatedXML
       /\ ui'.saved # ui.saved =>
              /\ ui.step \in {"preview", "uploading"}
              /\ Len(ui'.saved) = 1
              /\ ui'.saved[1].xmlContent = ui.generatedXML
              /\ ui.generatedXML \in GoodDocuments]_vars

\* C13 witness: after a first generation that was previewed, a second one
\* returned a document without <channel>; the form shows the error.
C13_Witness ==
    /\ ui.st = "mounted" /\ ui.step = "input"
    /\ ui.error = "channel"
    /\ ui.received \in NoChannelDocuments
    /\ ui.generatedXML \in GoodDocuments
    /\ ui.generations = 2 /\ ~ui.generating
    /\ ui.saved = <<>>

\* The texts the repair strategies make of an answer: what stands inside its
\* fences, the answer without control characters, with its \u escapes
\* repaired, with its truncation repaired, and from its first '{' to its
\* last '}'.
RepairedTexts(text) ==
    {ExtractMarkdown(text), StripControl(text), RepairUnicode(text), RepairTruncation(text)}
        \cup (IF IndexOf(text, {"{"}) # 0 /\ LastIndexOf(text, ClosingBraces) # 0
              THEN {BraceSubstring(text)} ELSE {})

\* C21: when decoding fails to parse the answer, none of the repair
\* strategies makes the answer parse, and the message of the error carries
\* the first characters of the answer.
C21_FailsOnlyAfterAllRepairs ==
    (dec.st = "thrown" /\ dec.msg # "type") =>
        /\ \A repaired \in RepairedTexts(dec.text) : ~JSONparse(repaired).ok
        /\ dec.msg = "head"

\* C22: an answer that is JSON without an items array (null, a number, an
\* array, an object without items or with items that is no array) decodes
\* to zero items, and generation goes on.
C22_NoItemsArrayMeansNoItems ==
    (dec.st # "start" /\ dec.text \in ItemlessDocuments) =>
        /\ dec.st = "done"
        /\ dec.items = <<>>

\* C23: an answer that is valid JSON but for a raw control character inside
\* the title of its first item decodes, and to the items of the answer
\* without that character.
C23_ControlCharactersStripped ==
    \A doc \in Documents :
        (dec.st # "start" /\ dec.text # doc /\ dec.text = Damaged(doc, "t1+ctl")) =>
            /\ dec.st = "done"
            /\ dec.items = JSONparse(doc).val

\* C24: for a channel without a title, link or description of its own,
\* parseXMLToFeed returns "Untitled Feed" for the title and the empty string
\* for the link and the description, whatever its items carry.
C24_MissingChannelFieldsDefault ==
    (ser.st = "done" /\ ser.parsed.error = "") =>
        /\ "title" \notin ser.xml.own => ser.parsed.feed.title = <<"Untitled Feed">>
        /\ "link" \notin ser.xml.own => ser.parsed.feed.link = <<>>
        /\ "description" \notin ser.xml.own => ser.parsed.feed.description = <<>>

\* The elements of a given name among those written for the image.
MediaNamed(name) == {i \in DOMAIN tpl.element.media : tpl.element.media[i].name = name}

\* C25: an item written with an image carries an <enclosure> with type
\* image/jpeg and length 0 and a <media:content>, both with the image's
\* URL; an item written without an image carries neither.
C25_EnclosureAndMediaContent ==
    tpl.st = "done" =>
        IF tpl.finalImage # NoUrl
        THEN \E e \in MediaNamed("enclosure"), m \in MediaNamed("media:content") :
                /\ tpl.element.media[e].url = escapeXml(tpl.finalImage)
                /\ tpl.element.media[e].type = "image/jpeg"
                /\ tpl.element.media[e].length = "0"
                /\ tpl.element.media[m].url = tpl.element.media[e].url
        ELSE MediaNamed("enclosure") \cup MediaNamed("media:content") = {}

\* C26: the description written for an item is never blank, and it is the
\* item's title when the item has a title but no description or an empty one.
C26_DescriptionNeverBlank ==
    tpl.st = "done" =>
        /\ \E i \in DOMAIN tpl.element.description :
              tpl.element.description[i] \notin {"", " "}
        /\ (tpl.item.description \in {Undefined, ""} /\ tpl.item.title \notin {Undefined, ""}) =>
              tpl.element.description[1] = tpl.item.title

\* C27: every upload uses a client made with the endpoint and the project
\* of the configuration passed to that call, whatever calls came before.
C27_UploadUsesPassedConfig ==
    aw.st = "loaded" =>
        \A i \in DOMAIN aw.calls :
            aw.calls[i].op = "upload" =>
                /\ aw.calls[i].used.endpoint = trim(aw.calls[i].config.endpoint)
                /\ aw.calls[i].used.project = trim(aw.calls[i].config.projectId)

C29_SavedLocallyWhenUploadFails ==
    [][LET finished == ui.st = "mounted" /\ ui'.st = "closed"
       IN  /\ (ui.step = "preview" /\ ui'.step # "preview") =>
                 \/ ui'.step = "input"
                 \/ finished
                 \/ ui'.step = "uploading" /\ ui'.saving # ""
           /\ (ui.saving # "" /\ ui' # ui) => finished
           /\ finished =>
                 /\ Len(ui'.saved) = 1
                 /\ ui'.saved[1].xmlContent = ui.generatedXML
                 /\ ui'.saved[1].url = ui.url
                 /\ ui'.succeeded = ui'.saved
           /\ (finished /\ ui'.uploadFailed) =>
                 /\ ui'.saved[1].publicUrl = Undefined
                 /\ ui'.saved[1].fileId = Undefined
                 /\ ui'.error = "upload failed"]_vars

\* C29 witness: the upload of a static feed has failed, and the feed is
\* stored without publicUrl and fileId and was handed to onSuccess.
C29_Witness ==
    /\ ui.st = "closed" /\ ui.uploadFailed
    /\ Len(ui.saved) = 1
    /\ ui.saved[1].publicUrl = Undefined /\ ui.saved[1].fileId = Undefined
    /\ ui.succeeded = ui.saved

\* C30: the error document of the hardened entry point is well-formed for
\* every error message: the text of the error never ends the CDATA section
\* of the description, and no markup character of it stands bare.
C30_ErrorDocumentWellFormed ==
    errdoc.st = "sent" => WellFormedContent(errdoc.xml, FALSE)

=============================================================================
